---- MODULE Spec2Model ----
(***************************************************************************)
(* Model of the SelectedListBox renderer of design-system-react            *)
(* (src/components/pill/private/selected-listbox.jsx).                     *)
(*                                                                         *)
(* SelectedListBox is a function component: its output is recomputed from  *)
(* its props on every render.  The state is the props of the current       *)
(* render, the element tree that render returned, and the last call a pill *)
(* of that tree forwarded to one of the caller's handlers.                 *)
(*                                                                         *)
(* JavaScript values are encoded as follows.                               *)
(*   - a string-or-undefined value is a string, `undefined` being the      *)
(*     string Undefined; the empty string is kept because it is falsy;     *)
(*   - a number-or-undefined value is a record [defined, value];           *)
(*   - an object that is a visual (option.icon, option.avatar, a React     *)
(*     element, null) is a record with one fixed set of fields, its        *)
(*     `kind` saying which of undefined / null / plain object / React      *)
(*     element it is.                                                      *)
(* Render indexes are 0-based as in the source; sequences are 1-based, so  *)
(* the token of render index k is tokens[k + 1].                           *)
(***************************************************************************)
EXTENDS Integers, Sequences, FiniteSets

VARIABLES props, output, delivered, rerendered, bands, styleTags, mat

\* The state of the SelectedListBox, BrandBand and WelcomeMat components.
listboxVars == <<props, output, delivered, rerendered>>

bandVars == <<bands, styleTags>>

matVars == <<mat>>

vars == <<props, output, delivered, rerendered, bands, styleTags, mat>>

\* Longest selection the caller passes.
MaxLen == 3

\* Number of BrandBand instances the application creates.
MaxBands == 2

\* Most children (steps) a WelcomeMat is given.
MaxSteps == 3

----------------------------------------------------------------------------
(* JavaScript value encodings *)

Undefined == "undefined"

\* Truthiness of a string-or-undefined value.
Truthy(s) == s \notin {Undefined, ""}

\* a || b on string-or-undefined values.
OrElse(a, b) == IF Truthy(a) THEN a ELSE b

NoNumber == [defined |-> FALSE, value |-> 0]

Num(i) == [defined |-> TRUE, value |-> i]

\* A visual: undefined, null, a plain descriptor object or a React element.
Visual(kind, type, containerClassName, category, name, title, imgSrc, variant) ==
    [kind |-> kind, type |-> type, containerClassName |-> containerClassName,
     category |-> category, name |-> name, title |-> title,
     imgSrc |-> imgSrc, variant |-> variant]

UndefinedVisual ==
    Visual("undefined", Undefined, Undefined, Undefined, Undefined, Undefined,
           Undefined, Undefined)

NullVisual ==
    Visual("null", Undefined, Undefined, Undefined, Undefined, Undefined,
           Undefined, Undefined)

\* !x on a visual.
Falsy(v) == v.kind \in {"undefined", "null"}

----------------------------------------------------------------------------
(* Option accessors: getAvatar, getIcon *)

ContainerClassName == "slds-pill__icon_container"

\* The "is this object a renderable visual" predicate.
isReactComponent(v) == v.kind = "element"

\* React.cloneElement(element, { containerClassName }) dropping every prop
\* of the element but the injected one.
cloneElementDropsProps(element, containerClassName) ==
    Visual("element", element.type, containerClassName, Undefined, Undefined,
           Undefined, Undefined, Undefined)

\* React.cloneElement(element, { containerClassName }): a copy of the
\* element whose containerClassName prop is replaced.
cloneElement(element, containerClassName) ==
    [element EXCEPT !.containerClassName = containerClassName]

\* <Avatar imgSrc=.. title=.. variant=.. />
AvatarElement(imgSrc, title, variant) ==
    Visual("element", "Avatar", Undefined, Undefined, Undefined, title,
           imgSrc, variant)

\* <Icon category=.. name=.. title=.. />
IconElement(category, name, title) ==
    Visual("element", "Icon", Undefined, category, name, title,
           Undefined, Undefined)

getAvatar(option) ==
    LET avatarObject == option.avatar IN
    IF Falsy(avatarObject) THEN NullVisual
    ELSE IF isReactComponent(avatarObject)
         THEN cloneElement(avatarObject, ContainerClassName)
    ELSE IF Truthy(avatarObject.imgSrc)
         THEN AvatarElement(avatarObject.imgSrc,
                            OrElse(avatarObject.title, option.label),
                            OrElse(avatarObject.variant, "user"))
    ELSE NullVisual

\* getIcon synthesizing an icon from a descriptor that has a category only.
getIconCategoryOnly(option) ==
    LET iconObject == option.icon IN
    IF Falsy(iconObject) THEN NullVisual
    ELSE IF isReactComponent(iconObject)
         THEN cloneElement(iconObject, ContainerClassName)
    ELSE IF Truthy(iconObject.category)
         THEN IconElement(iconObject.category, iconObject.name,
                          OrElse(iconObject.title, option.label))
    ELSE NullVisual

getIcon(option) ==
    LET iconObject == option.icon IN
    IF Falsy(iconObject) THEN NullVisual
    ELSE IF isReactComponent(iconObject)
         THEN cloneElement(iconObject, ContainerClassName)
    ELSE IF Truthy(iconObject.category) /\ Truthy(iconObject.name)
         THEN IconElement(iconObject.category, iconObject.name,
                          OrElse(iconObject.title, option.label))
    ELSE NullVisual

\* const avatar = getAvatar(option), without the icon test.
pillAvatarAlways(option, icon) == getAvatar(option)

\* const avatar = !icon ? getAvatar(option) : null
pillAvatar(option, icon) ==
    IF Falsy(icon) THEN getAvatar(option) ELSE NullVisual

----------------------------------------------------------------------------
(* SelectedListBox: the render function *)

Variants == {"base", "inline-listbox", "readonly"}

\* defaultProps.renderAtSelectionLength
DefaultRenderAtSelectionLength == 1

\* props.renderAtSelectionLength after defaultProps are applied.
renderAtSelectionLength(p) ==
    IF p.renderAtSelectionLength.defined
    THEN p.renderAtSelectionLength.value
    ELSE DefaultRenderAtSelectionLength

\* The render test always true: an empty container instead of null.
shouldRenderAlways(p) == TRUE

\* props.selection.length >= props.renderAtSelectionLength
shouldRender(p) == Len(p.selection) >= renderAtSelectionLength(p)

\* renderIndex === props.activeOptionIndex, off by one.
setActiveOffByOne(p, renderIndex) == renderIndex + 1 = p.activeOptionIndex

setActiveBasedOnstateFromParent(p, renderIndex) ==
    renderIndex = p.activeOptionIndex

\* listboxRenderedForFirstTime without the sentinel disjunct.
firstTimeNoSentinel(p, renderIndex) ==
    /\ p.variant = "readonly"
    /\ Len(p.selection) # 1
    /\ renderIndex = 0

\* listboxRenderedForFirstTime whose readonly disjunct needs the sentinel.
firstTimeReadonlyNeedsSentinel(p, renderIndex) ==
    p.activeOptionIndex = -1 /\ renderIndex = 0

listboxRenderedForFirstTime(p, renderIndex) ==
    \/ (p.activeOptionIndex = -1 /\ renderIndex = 0)
    \/ /\ p.variant = "readonly"
       /\ Len(p.selection) # 1
       /\ renderIndex = 0

\* { ...data, index: renderIndex } with the spread last: data's index wins.
withIndexDataWins(data, renderIndex) ==
    IF data.index.defined THEN data
    ELSE [data EXCEPT !.index = Num(renderIndex)]

\* { ...data, index: renderIndex }
withIndex(data, renderIndex) == [data EXCEPT !.index = Num(renderIndex)]

\* (event, data) => props.events[target](event, {...data, index: renderIndex})
Wrapped(target, renderIndex) ==
    [target |-> target, injectIndex |-> TRUE, renderIndex |-> renderIndex]

\* props.events[target], handed to the pill as it is.
Direct(target) ==
    [target |-> target, injectIndex |-> FALSE, renderIndex |-> 0]

\* The events prop with the click handler handed down unwrapped.
pillEventsClickDirect(p, renderIndex) ==
    [onClick |-> Direct("onClickPill"),
     onRequestFocusOnNextPill |-> Direct("onRequestFocusOnNextPill"),
     onRequestFocusOnPreviousPill |-> Direct("onRequestFocusOnPreviousPill"),
     onRequestRemove |-> Wrapped("onRequestRemove", renderIndex),
     onRequestFocus |-> Direct("onRequestFocus")]

\* The events prop of the pill at renderIndex.
pillEvents(p, renderIndex) ==
    [onClick |-> Wrapped("onClickPill", renderIndex),
     onRequestFocusOnNextPill |-> Direct("onRequestFocusOnNextPill"),
     onRequestFocusOnPreviousPill |-> Direct("onRequestFocusOnPreviousPill"),
     onRequestRemove |-> Wrapped("onRequestRemove", renderIndex),
     onRequestFocus |-> Direct("onRequestFocus")]

\* tabIndex={active ? 0 : -1}
tabIndexOf(active) == IF active THEN 0 ELSE -1

\* The <Pill> rendered for option at renderIndex (the body of the map callback).
pill(p, option, renderIndex) ==
    LET active == \/ setActiveBasedOnstateFromParent(p, renderIndex)
                  \/ listboxRenderedForFirstTime(p, renderIndex)
        icon   == getIcon(option)
        avatar == pillAvatar(option, icon)
    IN  [active    |-> active,
         avatar    |-> avatar,
         events    |-> pillEvents(p, renderIndex),
         eventData |-> [option |-> option],
         icon      |-> icon,
         labels    |-> [label |-> option.label],
         tabIndex  |-> tabIndexOf(active)]

\* props.selection.map(...) that loses the last option.
tokensDropLast(p) ==
    [k \in 1..(Len(p.selection) - 1) |-> pill(p, p.selection[k], k - 1)]

\* props.selection.map((option, renderIndex) => <li><Pill .../></li>)
tokens(p) ==
    [k \in 1..Len(p.selection) |-> pill(p, p.selection[k], k - 1)]

NullOutput == [rendered |-> FALSE, tokens |-> <<>>]

\* The element SelectedListBox returns for props p: null, or the listbox
\* container with its tokens.
SelectedListBox(p) ==
    IF shouldRender(p)
    THEN [rendered |-> TRUE, tokens |-> tokens(p)]
    ELSE NullOutput

\* What the caller's handler receives when a pill calls the handler it was
\* given with (event, data).
Invoke(closure, data) ==
    [handler |-> closure.target,
     payload |-> IF closure.injectIndex
                 THEN withIndex(data, closure.renderIndex)
                 ELSE data]

----------------------------------------------------------------------------
(* Inputs the caller supplies *)

Option(id, label, icon, avatar) ==
    [id |-> id, label |-> label, icon |-> icon, avatar |-> avatar]

\* A plain descriptor object, as written by the caller.
Descriptor(category, name, title, imgSrc, variant) ==
    Visual("object", Undefined, Undefined, category, name, title, imgSrc,
           variant)

\* A pre-built element, as written by the caller.
PreBuilt(type, containerClassName, title) ==
    Visual("element", type, containerClassName, Undefined, Undefined, title,
           Undefined, Undefined)

\* The options the caller selects from in the listbox specification: one
\* with an icon descriptor, one with an avatar descriptor, one with neither;
\* ids are unrelated to positions.
OptionPool ==
    { Option(5, "Acme",
             Descriptor("standard", "account", Undefined, Undefined, Undefined),
             UndefinedVisual),
      Option(0, "Paddy", UndefinedVisual,
             Descriptor(Undefined, Undefined, Undefined, "paddy.png", Undefined)),
      Option(1, "Tyrell", UndefinedVisual, UndefinedVisual) }

IconInputs ==
    {UndefinedVisual}
    \cup { PreBuilt(t, c, ti) : t \in {"Icon", "Custom"},
                                c \in {Undefined, "my-container", ContainerClassName},
                                ti \in {Undefined, "Built"} }
    \cup { Descriptor(c, n, ti, Undefined, Undefined) :
               c \in {Undefined, "", "standard"},
               n \in {Undefined, "account"},
               ti \in {Undefined, "", "Account"} }

AvatarInputs ==
    {UndefinedVisual}
    \cup { PreBuilt("Avatar", c, Undefined) : c \in {Undefined, "my-container"} }
    \cup { Descriptor(Undefined, Undefined, ti, src, v) :
               ti \in {Undefined, "Face"},
               src \in {Undefined, "face.png"},
               v \in {Undefined, "entity"} }

LabelInputs == {Undefined, "Acme"}

\* activeOptionIndex: the sentinel, every index of a longest selection and
\* one index past it.
ActiveIndexes == -1..MaxLen

\* renderAtSelectionLength: left out by the caller, or a length.
RenderAtInputs == {NoNumber, Num(0), Num(2)}

\* The selection of a first render: empty, or one option.
InitialSelections == {<<>>} \cup { <<o>> : o \in OptionPool }

\* The data a pill passes to a handler: its eventData, with or without an
\* index of its own.
PillData(token) ==
    { [option |-> token.eventData.option, index |-> i] :
        i \in {NoNumber, Num(0), Num(1)} }

----------------------------------------------------------------------------
(* No BrandBand constructed, no WelcomeMat mounted *)

\* A BrandBand instance before its constructor has run.
NoBand ==
    [status |-> "none", theme |-> "default", styleInjectionTarget |-> "head",
     styleTag |-> FALSE, hasRepaintedTheme |-> FALSE]

\* A WelcomeMat before its constructor has run.
NoMat ==
    [status |-> "none", variant |-> "steps",
     children |-> [present |-> FALSE, steps |-> <<>>],
     state |-> [completedSteps |-> 0, totalSteps |-> 0,
                progress |-> [nan |-> FALSE, num |-> 0, den |-> 1]],
     shown |-> <<>>]

OthersIdle ==
    /\ bands = [i \in 1..MaxBands |-> NoBand]
    /\ styleTags = {}
    /\ mat = NoMat

----------------------------------------------------------------------------
(* The listbox specification: renders, re-renders and pill events *)

Init ==
    /\ props \in [selection : InitialSelections,
                  activeOptionIndex : ActiveIndexes,
                  variant : Variants,
                  renderAtSelectionLength : RenderAtInputs]
    /\ output = SelectedListBox(props)
    /\ delivered = <<>>
    /\ rerendered = FALSE
    /\ OthersIdle

\* The caller renders the component again with props p.
Render(p) ==
    /\ props' = p
    /\ output' = SelectedListBox(p)
    /\ delivered' = <<>>
    /\ rerendered' = TRUE
    /\ UNCHANGED <<bandVars, matVars>>

\* The caller extends the selection with an option not yet selected (ids
\* are unique within a selection).
Extend ==
    \E o \in OptionPool :
        /\ Len(props.selection) < MaxLen
        /\ \A k \in DOMAIN props.selection : props.selection[k] # o
        /\ Render([props EXCEPT !.selection = Append(@, o)])

\* The caller filters one option out of the selection.
Filter ==
    \E k \in DOMAIN props.selection :
        Render([props EXCEPT !.selection =
                   SubSeq(@, 1, k - 1) \o SubSeq(@, k + 1, Len(@))])

\* The caller reorders the selection.
Reorder ==
    \E i, j \in DOMAIN props.selection :
        /\ i < j
        /\ Render([props EXCEPT !.selection =
                      [@ EXCEPT ![i] = props.selection[j],
                                ![j] = props.selection[i]]])

SetActiveOptionIndex ==
    \E i \in ActiveIndexes \ {props.activeOptionIndex} :
        Render([props EXCEPT !.activeOptionIndex = i])

SetVariant ==
    \E v \in Variants \ {props.variant} :
        Render([props EXCEPT !.variant = v])

SetRenderAtSelectionLength ==
    \E n \in RenderAtInputs \ {props.renderAtSelectionLength} :
        Render([props EXCEPT !.renderAtSelectionLength = n])

\* The pill at render index k calls the handler it holds under `name`,
\* passing data; the caller's handler receives the call.
Fire(name, k, data) ==
    /\ output.rendered
    /\ k + 1 \in DOMAIN output.tokens
    /\ delivered' = << [event |-> name, token |-> k, data |-> data,
                        call |->Invoke(output.tokens[k + 1].events[name], data)] >>
    /\ UNCHANGED <<props, output, rerendered, bandVars, matVars>>

RenderIndexes == 0..(Len(output.tokens) - 1)

ClickPill ==
    \E k \in RenderIndexes : \E data \in PillData(output.tokens[k + 1]) :
        Fire("onClick", k, data)

RequestRemove ==
    \E k \in RenderIndexes : \E data \in PillData(output.tokens[k + 1]) :
        Fire("onRequestRemove", k, data)

RequestFocus ==
    \E k \in RenderIndexes : \E data \in PillData(output.tokens[k + 1]) :
        Fire("onRequestFocus", k, data)

RequestFocusOnNextPill ==
    \E k \in RenderIndexes : \E data \in PillData(output.tokens[k + 1]) :
        Fire("onRequestFocusOnNextPill", k, data)

RequestFocusOnPreviousPill ==
    \E k \in RenderIndexes : \E data \in PillData(output.tokens[k + 1]) :
        Fire("onRequestFocusOnPreviousPill", k, data)

Next ==
    \/ Extend
    \/ Filter
    \/ Reorder
    \/ SetActiveOptionIndex
    \/ SetVariant
    \/ SetRenderAtSelectionLength
    \/ ClickPill
    \/ RequestRemove
    \/ RequestFocus
    \/ RequestFocusOnNextPill
    \/ RequestFocusOnPreviousPill

Spec == Init /\ [][Next]_vars

----------------------------------------------------------------------------
(* The visual specification: one option, every shape of icon and avatar *)

InitVisual ==
    /\ \E l \in LabelInputs, i \in IconInputs, a \in AvatarInputs :
          props = [selection |-> << Option(7, l, i, a) >>,
                   activeOptionIndex |-> -1,
                   variant |-> "base",
                   renderAtSelectionLength |-> NoNumber]
    /\ output = SelectedListBox(props)
    /\ delivered = <<>>
    /\ rerendered = FALSE
    /\ OthersIdle

\* The caller re-renders with another icon on the option.
SetIcon ==
    \E i \in IconInputs \ {props.selection[1].icon} :
        Render([props EXCEPT !.selection[1].icon = i])

\* The caller re-renders with another avatar on the option.
SetAvatar ==
    \E a \in AvatarInputs \ {props.selection[1].avatar} :
        Render([props EXCEPT !.selection[1].avatar = a])

\* The caller re-renders with another label on the option.
SetLabel ==
    \E l \in LabelInputs \ {props.selection[1].label} :
        Render([props EXCEPT !.selection[1].label = l])

NextVisual == SetIcon \/ SetAvatar \/ SetLabel

SpecVisual == InitVisual /\ [][NextVisual]_vars

----------------------------------------------------------------------------
(* Properties *)

\* The minimum render length of the current props, the default being 1.
MinRenderLength ==
    IF props.renderAtSelectionLength.defined
    THEN props.renderAtSelectionLength.value
    ELSE 1

\* C1: whenever selection.length < renderAtSelectionLength (default 1) the
\* output is null, not an empty container; in particular an empty selection
\* with the default renders nothing.
C1_NothingBelowRenderLength ==
    /\ Len(props.selection) < MinRenderLength
          => (~output.rendered /\ output = NullOutput)
    /\ (props.selection = <<>> /\ ~props.renderAtSelectionLength.defined)
          => (~output.rendered /\ output = NullOutput)

\* A non-empty selection below renderAtSelectionLength = 2 rendered as null.
C1_Witness ==
    /\ Len(props.selection) = 1
    /\ props.renderAtSelectionLength = Num(2)
    /\ output = NullOutput

\* C2: whenever selection.length >= renderAtSelectionLength the output has
\* exactly selection.length tokens and the token at render position k
\* represents selection[k].
C2_OneTokenPerOptionInOrder ==
    Len(props.selection) >= MinRenderLength =>
        /\ output.rendered
        /\ Len(output.tokens) = Len(props.selection)
        /\ \A k \in DOMAIN props.selection :
              /\ output.tokens[k].eventData.option = props.selection[k]
              /\ output.tokens[k].labels.label = props.selection[k].label

\* A re-rendered selection of at least two options, rendered.
C2_Witness ==
    /\ rerendered
    /\ output.rendered
    /\ Len(props.selection) >= 2
    /\ Len(output.tokens) = Len(props.selection)
    /\ output.tokens[2].eventData.option = props.selection[2]

\* The handler of the caller each pill event is forwarded to.
CallerHandler(event) ==
    IF event = "onClick" THEN "onClickPill" ELSE event

\* C3 as stated: whichever of the five events a token fires, the caller's
\* handler receives a payload whose index equals the token's render index.
C3_AllFiveInjectIndex ==
    \A i \in DOMAIN delivered :
        delivered[i].call.payload.index = Num(delivered[i].token)

\* C3 amended: the click and remove-request handlers receive the token's
\* payload with index set to the token's render index; the focus-request,
\* focus-next-request and focus-previous-request handlers are handed to the
\* token unwrapped and receive the token's payload unchanged.
C3_ClickAndRemoveInjectIndex ==
    \A i \in DOMAIN delivered :
        LET d == delivered[i] IN
        /\ d.call.handler = CallerHandler(d.event)
        /\ IF d.event \in {"onClick", "onRequestRemove"}
           THEN d.call.payload = [option |-> d.data.option,
                                  index |-> Num(d.token)]
           ELSE d.call.payload = d.data

\* A click on the token at render index 2 whose own payload said index 0.
C3_Witness ==
    \E i \in DOMAIN delivered :
        /\ delivered[i].event = "onClick"
        /\ delivered[i].token = 2
        /\ delivered[i].data.index = Num(0)
        /\ delivered[i].call.handler = "onClickPill"
        /\ delivered[i].call.payload.index = Num(2)

\* C4: after any re-renders, a remove request of the token at render
\* position k reaches onRequestRemove with index k, the position in the
\* current selection of the option the token represents, whatever the ids
\* and whatever index the token's own payload carried.
C4_RemoveDeliversCurrentIndex ==
    \A i \in DOMAIN delivered :
        LET d == delivered[i] IN
        d.event = "onRequestRemove" =>
            /\ d.call.handler = "onRequestRemove"
            /\ d.call.payload.index = Num(d.token)
            /\ d.token + 1 \in DOMAIN props.selection
            /\ props.selection[d.token + 1] = d.call.payload.option

\* After a re-render, a remove request of the token at position 2, whose
\* option has another id and whose own payload carried index 1.
C4_Witness ==
    /\ rerendered
    /\ \E i \in DOMAIN delivered :
          /\ delivered[i].event = "onRequestRemove"
          /\ delivered[i].token = 2
          /\ delivered[i].data.index = Num(1)
          /\ delivered[i].data.option.id # 2
          /\ delivered[i].call.payload.index = Num(2)

\* C5: with activeOptionIndex = -1 and variant "base", in every rendered
\* selection of length >= 1 the token at render index 0 is active and no
\* other token is.
C5_SentinelActivatesFirst ==
    (/\ output.rendered
     /\ Len(props.selection) >= 1
     /\ props.activeOptionIndex = -1
     /\ props.variant = "base")
    => /\ output.tokens[1].active
       /\ \A k \in DOMAIN output.tokens : k > 1 => ~output.tokens[k].active

C5_Witness ==
    /\ output.rendered
    /\ Len(output.tokens) >= 2
    /\ props.activeOptionIndex = -1
    /\ props.variant = "base"
    /\ output.tokens[1].active
    /\ ~output.tokens[2].active

\* C6: with variant "readonly", in every rendered selection whose length is
\* not 1 the token at render index 0 is active for every activeOptionIndex.
C6_ReadonlyActivatesFirst ==
    (/\ output.rendered
     /\ props.variant = "readonly"
     /\ Len(props.selection) # 1
     /\ Len(props.selection) >= 1)
    => output.tokens[1].active

\* Readonly, at least two options, activeOptionIndex an in-range index
\* other than 0.
C6_Witness ==
    /\ output.rendered
    /\ props.variant = "readonly"
    /\ Len(props.selection) >= 2
    /\ props.activeOptionIndex = 1
    /\ output.tokens[1].active

\* C7: the icon and the avatar passed to a token are never both non-null:
\* whenever the option's icon resolves to a visual the avatar is null,
\* whatever option.avatar holds.
C7_IconWins ==
    \A k \in DOMAIN output.tokens :
        output.tokens[k].icon # NullVisual
            => output.tokens[k].avatar = NullVisual

\* An option with a resolvable icon and a resolvable avatar.
C7_Witness ==
    \E k \in DOMAIN output.tokens :
        /\ props.selection[k].icon.kind = "object"
        /\ Truthy(props.selection[k].avatar.imgSrc)
        /\ output.tokens[k].icon.type = "Icon"
        /\ output.tokens[k].avatar = NullVisual

\* C8 as stated: a pre-built icon is passed to the token untouched, and the
\* avatar is null.
C8_PreBuiltIconUntouched ==
    \A k \in DOMAIN output.tokens :
        props.selection[k].icon.kind = "element"
            => /\ output.tokens[k].icon = props.selection[k].icon
               /\ output.tokens[k].avatar = NullVisual

\* C8 amended: a pre-built icon is passed to the token as a copy that
\* differs from it in the containerClassName prop only, which is
\* "slds-pill__icon_container"; the avatar is null.
C8_PreBuiltIconTagged ==
    \A k \in DOMAIN output.tokens :
        LET given == props.selection[k].icon
            icon  == output.tokens[k].icon
        IN  given.kind = "element"
            => /\ icon.kind = "element"
               /\ icon.type = given.type
               /\ icon.title = given.title
               /\ icon.category = given.category
               /\ icon.name = given.name
               /\ icon.imgSrc = given.imgSrc
               /\ icon.variant = given.variant
               /\ icon.containerClassName = "slds-pill__icon_container"
               /\ output.tokens[k].avatar = NullVisual

\* A pre-built icon with a container class and a title of its own, on an
\* option that also has an avatar.
C8_Witness ==
    \E k \in DOMAIN output.tokens :
        /\ props.selection[k].icon.kind = "element"
        /\ props.selection[k].icon.containerClassName = "my-container"
        /\ props.selection[k].icon.title = "Built"
        /\ props.selection[k].avatar.kind = "element"
        /\ output.tokens[k].icon.title = "Built"
        /\ output.tokens[k].avatar = NullVisual

\* C9: a descriptor icon with both a category and a name yields an Icon
\* whose title is the descriptor's title when it has one (a non-empty
\* string) and the option's label otherwise; a descriptor lacking category
\* or name yields no icon.
C9_DescriptorIcon ==
    \A k \in DOMAIN output.tokens :
        LET option == props.selection[k]
            icon   == output.tokens[k].icon
        IN  option.icon.kind = "object" =>
              IF option.icon.category \notin {Undefined, ""}
                 /\ option.icon.name \notin {Undefined, ""}
              THEN /\ icon.kind = "element"
                   /\ icon.type = "Icon"
                   /\ icon.category = option.icon.category
                   /\ icon.name = option.icon.name
                   /\ icon.title = IF option.icon.title \notin {Undefined, ""}
                                   THEN option.icon.title
                                   ELSE option.label
              ELSE icon = NullVisual

\* {category: "standard", name: "account"} without a title on an option
\* labelled "Acme".
C9_Witness ==
    \E k \in DOMAIN output.tokens :
        /\ props.selection[k].icon.kind = "object"
        /\ props.selection[k].icon.category = "standard"
        /\ props.selection[k].icon.name = "account"
        /\ props.selection[k].icon.title = Undefined
        /\ props.selection[k].label = "Acme"
        /\ output.tokens[k].icon.title = "Acme"

\* The render positions of the tokens with tabIndex 0.
TabStops == { k \in DOMAIN output.tokens : output.tokens[k].tabIndex = 0 }

\* C10 as stated: in every non-null render exactly one token has tabIndex 0.
C10_ExactlyOneActive ==
    output.rendered => Cardinality(TabStops) = 1

\* Readonly with a selection whose length is not 1.
ReadonlyMulti == props.variant = "readonly" /\ Len(props.selection) # 1

InRange == props.activeOptionIndex \in 0..(Len(props.selection) - 1)

\* C10 amended: in every non-null render a token has tabIndex 0 when it is
\* active and -1 otherwise, and at most two tokens are active.  Exactly one
\* is active exactly when the selection is non-empty and activeOptionIndex
\* is -1, or is 0, or is another in-range index outside readonly-multi, or
\* is out of range in readonly-multi.  Otherwise none is (out of range
\* outside readonly-multi, or no token), or index 0 and activeOptionIndex
\* both are (readonly-multi with an in-range index other than 0).
C10_ActiveTokens ==
    output.rendered =>
        /\ \A k \in DOMAIN output.tokens :
              /\ output.tokens[k].tabIndex \in {0, -1}
              /\ output.tokens[k].tabIndex = 0 <=> output.tokens[k].active
        /\ Cardinality(TabStops) <= 2
        /\ Cardinality(TabStops) = 1 <=>
              /\ Len(props.selection) >= 1
              /\ \/ props.activeOptionIndex = -1
                 \/ props.activeOptionIndex = 0
                 \/ InRange /\ ~ReadonlyMulti
                 \/ ~InRange /\ ReadonlyMulti
        /\ Cardinality(TabStops) = 2 <=>
              /\ ReadonlyMulti
              /\ InRange
              /\ props.activeOptionIndex # 0

\* Base variant, three options, activeOptionIndex = 1: the one tab stop is
\* the token at render index 1.
C10_Witness ==
    /\ output.rendered
    /\ Len(output.tokens) = 3
    /\ props.variant = "base"
    /\ props.activeOptionIndex = 1
    /\ TabStops = {2}

----------------------------------------------------------------------------
(* BrandBand: style-tag injection for the lightning-blue theme *)

Themes == {"default", "lightning-blue"}

\* Values of the styleInjectionTarget prop: the default selector 'head', a
\* selector that matches no element, and an Element passed as it is.
StyleTargets == {"head", "#missing", "<div>"}

\* typeof styleInjectionTarget === 'string'
IsSelector(target) == target \in {"head", "#missing"}

\* document.querySelector(selector): the element matched, or "null".
querySelector(selector) == IF selector = "head" THEN "<head>" ELSE "null"

\* The element the style tag is appended to, or "null".
resolveStyleInjectionTarget(target) ==
    IF IsSelector(target) THEN querySelector(target) ELSE target

\* injectLightningBlueStyles of instance i with props.styleInjectionTarget
\* target: the new value of <<this.styleTag, the style tags in the document>>.
injectLightningBlueStyles(i, target, tags) ==
    LET styleInjectionTarget == resolveStyleInjectionTarget(target) IN
    IF styleInjectionTarget # "null"
    THEN << TRUE,
            tags \cup {[owner |-> i, parent |-> styleInjectionTarget,
                        repaintNumber |-> 0]} >>
    ELSE << FALSE, tags >>

\* constructor(props)
BandConstruct ==
    \E i \in 1..MaxBands, theme \in Themes, target \in StyleTargets :
        /\ bands[i].status = "none"
        /\ LET injected == IF theme = "lightning-blue"
                           THEN injectLightningBlueStyles(i, target, styleTags)
                           ELSE << FALSE, styleTags >>
           IN  /\ bands' = [bands EXCEPT ![i] =
                               [status |-> "constructed", theme |-> theme,
                                styleInjectionTarget |-> target,
                                styleTag |-> injected[1],
                                hasRepaintedTheme |-> FALSE]]
               /\ styleTags' = injected[2]
        /\ UNCHANGED <<listboxVars, matVars>>

\* componentDidMount()
BandMount ==
    \E i \in 1..MaxBands :
        /\ bands[i].status = "constructed"
        /\ IF /\ ~bands[i].hasRepaintedTheme
              /\ bands[i].theme = "lightning-blue"
              /\ bands[i].styleTag
           THEN /\ styleTags' =
                      { IF t.owner = i THEN [t EXCEPT !.repaintNumber = 1] ELSE t :
                          t \in styleTags }
                /\ bands' = [bands EXCEPT ![i].status = "mounted",
                                          ![i].hasRepaintedTheme = TRUE]
           ELSE /\ styleTags' = styleTags
                /\ bands' = [bands EXCEPT ![i].status = "mounted"]
        /\ UNCHANGED <<listboxVars, matVars>>

\* The parent re-renders a mounted BrandBand with new props: the class has
\* no update lifecycle method, only render() runs.
BandUpdate ==
    \E i \in 1..MaxBands, theme \in Themes, target \in StyleTargets :
        /\ bands[i].status = "mounted"
        /\ <<theme, target>> # <<bands[i].theme, bands[i].styleInjectionTarget>>
        /\ bands' = [bands EXCEPT ![i].theme = theme,
                                  ![i].styleInjectionTarget = target]
        /\ UNCHANGED <<styleTags, listboxVars, matVars>>

\* componentWillUnmount()
BandUnmount ==
    \E i \in 1..MaxBands :
        /\ bands[i].status = "mounted"
        /\ styleTags' = IF bands[i].styleTag
                        THEN { t \in styleTags : t.owner # i }
                        ELSE styleTags
        /\ bands' = [bands EXCEPT ![i].status = "unmounted"]
        /\ UNCHANGED <<listboxVars, matVars>>

InitBand ==
    /\ bands = [i \in 1..MaxBands |-> NoBand]
    /\ styleTags = {}
    /\ mat = NoMat
    /\ props = [selection |-> <<>>, activeOptionIndex |-> -1,
                variant |-> "base", renderAtSelectionLength |-> NoNumber]
    /\ output = SelectedListBox(props)
    /\ delivered = <<>>
    /\ rerendered = FALSE

NextBand == BandConstruct \/ BandMount \/ BandUpdate \/ BandUnmount

SpecBand == InitBand /\ [][NextBand]_vars

\* The instances constructed and not yet unmounted.
LiveBands == { i \in 1..MaxBands : bands[i].status \in {"constructed", "mounted"} }

\* C11: the number of injected style tags equals the number of live
\* (constructed, not yet unmounted) instances whose current theme is
\* 'lightning-blue' and whose target resolves; no tag belongs to an
\* unmounted instance and every live lightning-blue instance has one.
C11_TagPerLiveLightningBlue ==
    LET themed == { i \in LiveBands :
                      /\ bands[i].theme = "lightning-blue"
                      /\ resolveStyleInjectionTarget(
                             bands[i].styleInjectionTarget) # "null" }
    IN  /\ Cardinality(styleTags) = Cardinality(themed)
        /\ \A t \in styleTags : t.owner \in themed
        /\ \A i \in themed : \E t \in styleTags : t.owner = i

----------------------------------------------------------------------------
(* WelcomeMat: progress computed from the children's isComplete flags *)

MatVariants == {"steps", "info-only"}

\* props.children: absent, or the list of the isComplete flags of the
\* child tiles (an empty list is a truthy empty array).
NoChildren == [present |-> FALSE, steps |-> <<>>]

ChildrenOf(steps) == [present |-> TRUE, steps |-> steps]

ChildrenInputs ==
    {NoChildren}
    \cup { ChildrenOf(steps) :
             steps \in UNION { [1..n -> BOOLEAN] : n \in 0..MaxSteps } }

\* React.Children.count(children)
ChildrenCount(children) == Len(children.steps)

\* React.Children.toArray(children).filter((c) => c.props.isComplete).length
CompletedCount(children) ==
    Cardinality({ k \in DOMAIN children.steps : children.steps[k] })

\* completedSteps / totalSteps * 100 as an exact fraction; 0 / 0 is NaN.
Percent(completedSteps, totalSteps) ==
    IF totalSteps = 0
    THEN [nan |-> TRUE, num |-> 0, den |-> 1]
    ELSE [nan |-> FALSE, num |-> completedSteps * 100, den |-> totalSteps]

\* getCount(): the state it sets from props.children.
getCount(children) ==
    LET totalSteps     == ChildrenCount(children)
        completedSteps == CompletedCount(children)
        progress       == Percent(completedSteps, totalSteps)
    IN  [completedSteps |-> completedSteps, totalSteps |-> totalSteps,
         progress |-> progress]

\* render(): the units-completed text and the ProgressBar value, shown for
\* the 'steps' variant with truthy children only.
renderProgress(variant, children, state) ==
    IF variant = "steps" /\ children.present THEN << state >> ELSE <<>>

\* constructor, componentWillMount (getCount) and the first render.
MatMount ==
    \E variant \in MatVariants, children \in ChildrenInputs :
        /\ mat.status = "none"
        /\ LET state == getCount(children) IN
           mat' = [status |-> "mounted", variant |-> variant,
                   children |-> children, state |-> state,
                   shown |-> renderProgress(variant, children, state)]
        /\ UNCHANGED <<listboxVars, bandVars>>

\* The parent re-renders the mounted WelcomeMat with new props: no lifecycle
\* method recomputes the state, only render() runs.
MatRender(variant, children) ==
    /\ mat.status = "mounted"
    /\ mat' = [mat EXCEPT !.variant = variant, !.children = children,
                          !.shown = renderProgress(variant, children, mat.state)]
    /\ UNCHANGED <<listboxVars, bandVars>>

\* A child's isComplete flag changes.
MatSetComplete ==
    \E k \in DOMAIN mat.children.steps, flag \in BOOLEAN :
        /\ mat.children.steps[k] # flag
        /\ MatRender(mat.variant,
                     ChildrenOf([mat.children.steps EXCEPT ![k] = flag]))

\* A child is added.
MatAddChild ==
    \E flag \in BOOLEAN :
        /\ Len(mat.children.steps) < MaxSteps
        /\ MatRender(mat.variant, ChildrenOf(Append(mat.children.steps, flag)))

\* The last child is removed.
MatRemoveChild ==
    /\ Len(mat.children.steps) >= 1
    /\ MatRender(mat.variant,
                 ChildrenOf(SubSeq(mat.children.steps, 1,
                                   Len(mat.children.steps) - 1)))

\* The variant changes.
MatSetVariant ==
    \E variant \in MatVariants \ {mat.variant} :
        MatRender(variant, mat.children)

InitMat ==
    /\ mat = NoMat
    /\ bands = [i \in 1..MaxBands |-> NoBand]
    /\ styleTags = {}
    /\ props = [selection |-> <<>>, activeOptionIndex |-> -1,
                variant |-> "base", renderAtSelectionLength |-> NoNumber]
    /\ output = SelectedListBox(props)
    /\ delivered = <<>>
    /\ rerendered = FALSE

NextMat ==
    \/ MatMount
    \/ MatSetComplete
    \/ MatAddChild
    \/ MatRemoveChild
    \/ MatSetVariant

SpecMat == InitMat /\ [][NextMat]_vars

\* C12: in every render of a 'steps' WelcomeMat with children the
\* displayed completedSteps, totalSteps and progress are the number of
\* current children with isComplete set, the number of current children,
\* and completedSteps / totalSteps * 100, a value between 0 and 100.
\* ("With children" is read as at least one child.)
C12_ProgressOfCurrentChildren ==
    (/\ mat.status = "mounted"
     /\ mat.variant = "steps"
     /\ mat.children.present
     /\ Len(mat.children.steps) >= 1)
    => /\ Len(mat.shown) = 1
       /\ LET shown     == mat.shown[1]
              completed == Cardinality({ k \in DOMAIN mat.children.steps :
                                           mat.children.steps[k] })
              total     == Len(mat.children.steps)
          IN  /\ shown.completedSteps = completed
              /\ shown.totalSteps = total
              /\ ~shown.progress.nan
              /\ shown.progress.num * total = completed * 100 * shown.progress.den
              /\ 0 <= shown.progress.num
              /\ shown.progress.num <= 100 * shown.progress.den

====
